---- MODULE Spec2Model ----
(***************************************************************************)
(* Lenses (src/src/lenses/index.spec.ts): a lens is a pair of functions    *)
(* get/set; compose builds a lens from an outer and an inner lens.         *)
(*                                                                         *)
(* JavaScript objects live in a heap and are passed by reference: a value  *)
(* is either a primitive (number, string) or the address of a heap object. *)
(* Functions are first-class values; here a function value is a record     *)
(* whose field "code" names the function body and whose other fields are   *)
(* the variables the closure captured.  Call runs a function value on an   *)
(* argument tuple and a heap and returns the returned value together with  *)
(* the heap the call leaves behind.                                        *)
(***************************************************************************)
EXTENDS Integers, Sequences, FiniteSets, TLC

\* ------------------------------------------------------------------ bounds
\* cTemperature inputs are -MaxC..MaxC
MaxC == 1
\* Fahrenheit inputs are 32-MaxF..32+MaxF (and the 50 of the second test)
MaxF == 1
\* number of calls of one test that may allocate objects
MaxSets == 2
\* number of lines of an invoice
MaxLines == 2
\* quantities of a line are 1..MaxQuantity
MaxQuantity == 2
\* fizzbuzz is called on -MaxN..MaxN
MaxN == 50
\* the lists reduced have at most MaxLen values, each in -MaxValue..MaxValue
MaxLen == 3
MaxValue == 2
\* callers that use a lens side by side
NCallers == 2
\* invocations the callers make in all
MaxInvocations == 2
\* counters made in one run
MaxCounters == 3
\* calls made on one counter
MaxCalls == 3
\* the conversions alone are applied to every temperature -MaxDegrees..MaxDegrees
MaxDegrees == 50

\* ------------------------------------------------------------ input values
Bit == {0, 1}
CInputs == -MaxC..MaxC
FInputs == ((32 - MaxF)..(32 + MaxF)) \cup {50}
WindInputs == {0, 1}
FirstNames == {"Francis", "Frank"}
LastNames == {"Underwood", "Urquhart"}
\* a Date is compared by the day it holds
Dates == {"1959-11-05", "1936-02-12"}

VARIABLES
  suite,    \* the test that runs: "table", "weather", "houseOfCards", "assoc"
  lenses,   \* the operand lenses of the test, outermost first
  heap,     \* the objects allocated so far, by address 1..Len(heap)
  before,   \* the heap as it was when the last call started
  nalloc,   \* how many calls allocated an object
  op,       \* the last call: "none", "get" or "set"
  target,   \* the lens the last call was made on
  focus,    \* the focus argument of the last call (set only)
  whole,    \* the whole argument of the last call
  ret,      \* what the last call returned
  inputs,   \* outside the lens tests: the arguments given so far, in order
  callers   \* the invocations that callers run side by side, by caller

vars == <<suite, lenses, heap, before, nalloc, op, target, focus, whole, ret,
          inputs, callers>>

\* ------------------------------------------------------------- JavaScript
\* the spread written last, { key: v, ...obj }: an own property key of obj
\* overwrites v
Spread_keyFirst(obj, key, v) ==
  [k \in DOMAIN obj \cup {key} |-> IF k \in DOMAIN obj THEN obj[k] ELSE v]

\* { ...obj, key: v }: a fresh object with the own properties of obj, key
\* written last
Spread(obj, key, v) ==
  [k \in DOMAIN obj \cup {key} |-> IF k = key THEN v ELSE obj[k]]

\* a call's outcome
Return(v, h) == [val |-> v, heap |-> h]

\* evaluating an object literal allocates a fresh object
New(obj, h) == Return(Len(h) + 1, Append(h, obj))

\* Math.floor(n / d) in the place of Math.round
MathRound_floor(n, d) == n \div d

\* Math.round(n / d) for d > 0: the nearest integer, a tie goes up
MathRound(n, d) == (2 * n + d) \div (2 * d)

\* the properties that hold a reference to another object
RefFields == {"name"}

\* the value toEqual compares: an object by its properties, recursively
RECURSIVE DeepValue(_, _)
DeepValue(a, h) ==
  [k \in DOMAIN h[a] |->
     IF k \in RefFields THEN DeepValue(h[a][k], h) ELSE h[a][k]]

\* --------------------------------------------------------------- the lenses
\* a constructor that checks SetGet on a pair of tables and refuses the pair
\* that breaks it
lens_validating(get, set) ==
  IF /\ get.code = "table" /\ set.code = "table"
     /\ \E p \in DOMAIN set.tbl : get.tbl[<<set.tbl[p]>>] # p[1]
  THEN [error |-> "SetGet"]
  ELSE [get |-> get, set |-> set]

lens(get, set) == [get |-> get, set |-> set]

compose(lens2, lens1) ==
  [get |-> [code |-> "compose.get", lens2 |-> lens2, lens1 |-> lens1],
   set |-> [code |-> "compose.set", lens2 |-> lens2, lens1 |-> lens1]]

RECURSIVE Call(_, _, _)

\* the inner get forgotten: object => lens2.get(object)
compose_get_forgetInner(lens2, lens1, object, h) ==
  Call(lens2.get, <<object>>, h)

\* object => lens1.get(lens2.get(object))
compose_get(lens2, lens1, object, h) ==
  LET r2 == Call(lens2.get, <<object>>, h)
  IN  Call(lens1.get, <<r2.val>>, r2.heap)

\* the outer get forgotten:
\* (value, object) => lens2.set(lens1.set(value, object), object)
compose_set_forgetGet(lens2, lens1, value, object, h) ==
  LET r1 == Call(lens1.set, <<value, object>>, h)
  IN  Call(lens2.set, <<r1.val, object>>, r1.heap)

\* the inner set forgotten: (value, object) => lens2.set(lens2.get(object), object)
compose_set_forgetInner(lens2, lens1, value, object, h) ==
  LET r2 == Call(lens2.get, <<object>>, h)
  IN  Call(lens2.set, <<r2.val, object>>, r2.heap)

\* the current focus of the outer lens read through the inner lens instead:
\* (value, object) => lens2.set(lens1.set(value, lens1.get(object)), object)
compose_set_readInner(lens2, lens1, value, object, h) ==
  LET r2 == Call(lens1.get, <<object>>, h)
      r1 == Call(lens1.set, <<value, r2.val>>, r2.heap)
  IN  Call(lens2.set, <<r1.val, object>>, r1.heap)

\* (value, object) => lens2.set(lens1.set(value, lens2.get(object)), object)
compose_set(lens2, lens1, value, object, h) ==
  LET r2 == Call(lens2.get, <<object>>, h)
      r1 == Call(lens1.set, <<value, r2.val>>, r2.heap)
  IN  Call(lens2.set, <<r1.val, object>>, r1.heap)

getTemperature(weather, h) == Return(h[weather].cTemperature, h)

\* weather.cTemperature = cTemperature; return weather
setTemperature_inPlace(cTemperature, weather, h) ==
  Return(weather, [h EXCEPT ![weather] =
                     Spread(h[weather], "cTemperature", cTemperature)])

setTemperature(cTemperature, weather, h) ==
  New(Spread(h[weather], "cTemperature", cTemperature), h)

celciusToFahrenheit(cTemperature) == MathRound(cTemperature * 9 + 32 * 5, 5)

\* the offset of 32 forgotten: Math.round((fTemperature * 5) / 9)
fahrenheitToCelcius_noOffset(fTemperature) == MathRound(fTemperature * 5, 9)

fahrenheitToCelcius(fTemperature) == MathRound((fTemperature - 32) * 5, 9)

\* the prior whole used: the new temperature is added to it
fahrenheitToCelciusLens_set_relative(fTemperature, cTemperature) ==
  cTemperature + fahrenheitToCelcius(fTemperature)

\* fahrenheitToCelcius as the set of fahrenheitToCelciusLens: it is called
\* with (value, object) and has one parameter, so the object is dropped
fahrenheitToCelciusLens_set(fTemperature, cTemperature) ==
  fahrenheitToCelcius(fTemperature)

nameLens_get(identity, h) == Return(h[identity].name, h)

nameLens_set(name, identity, h) == New(Spread(h[identity], "name", name), h)

firstNameLens_get(name, h) == Return(h[name].firstName, h)

\* the spread forgotten: (firstName, name) => ({ firstName })
firstNameLens_set_noSpread(firstName, name, h) ==
  New([firstName |-> firstName], h)

firstNameLens_set(firstName, name, h) ==
  New(Spread(h[name], "firstName", firstName), h)

Call(f, args, h) ==
  CASE f.code = "table" -> Return(f.tbl[args], h)
    [] f.code = "compose.get" -> compose_get(f.lens2, f.lens1, args[1], h)
    [] f.code = "compose.set" ->
         compose_set(f.lens2, f.lens1, args[1], args[2], h)
    [] f.code = "getTemperature" -> getTemperature(args[1], h)
    [] f.code = "setTemperature" -> setTemperature(args[1], args[2], h)
    [] f.code = "celciusToFahrenheit" ->
         Return(celciusToFahrenheit(args[1]), h)
    [] f.code = "fahrenheitToCelcius" ->
         Return(fahrenheitToCelciusLens_set(args[1], args[2]), h)
    [] f.code = "nameLens.get" -> nameLens_get(args[1], h)
    [] f.code = "nameLens.set" -> nameLens_set(args[1], args[2], h)
    [] f.code = "firstNameLens.get" -> firstNameLens_get(args[1], h)
    [] f.code = "firstNameLens.set" -> firstNameLens_set(args[1], args[2], h)

Fn(code) == [code |-> code]

celciusTemperatureLens == lens(Fn("getTemperature"), Fn("setTemperature"))

fahrenheitToCelciusLens ==
  lens(Fn("celciusToFahrenheit"), Fn("fahrenheitToCelcius"))

nameLens == lens(Fn("nameLens.get"), Fn("nameLens.set"))

firstNameLens == lens(Fn("firstNameLens.get"), Fn("firstNameLens.set"))

\* a caller-supplied function over Bit, given by its table
Table(tbl) == [code |-> "table", tbl |-> tbl]

\* every pair of a getter Bit -> Bit and a setter (Bit, Bit) -> Bit
TableLenses ==
  {lens(Table(g), Table(s)) : g \in [{<<w>> : w \in Bit} -> Bit],
                              s \in [Bit \X Bit -> Bit]}

\* ---------------------------------------------------------------- the tests
\* the lens a test calls, by name
LensOf(t) ==
  CASE t = "outer" -> lenses[1]
    [] t = "inner" -> lenses[2]
    [] t = "composed" -> compose(lenses[1], lenses[2])
    [] t = "left" -> compose(compose(lenses[1], lenses[2]), lenses[3])
    [] t = "right" -> compose(lenses[1], compose(lenses[2], lenses[3]))

Targets == IF suite = "assoc" THEN {"left", "right"}
           ELSE {"outer", "inner", "composed"}

\* "obj" when the Whole (the Focus) of a lens is an object, "prim" otherwise
WholeType(t) ==
  CASE suite \in {"table", "assoc"} -> "prim"
    [] suite = "weather" -> IF t = "inner" THEN "prim" ELSE "obj"
    [] suite = "houseOfCards" -> "obj"

FocusType(t) ==
  CASE suite \in {"table", "assoc"} -> "prim"
    [] suite = "weather" -> "prim"
    [] suite = "houseOfCards" -> IF t = "outer" THEN "obj" ELSE "prim"

\* what toEqual compares a value of that type by
Value(type, v, h) == IF type = "obj" THEN DeepValue(v, h) ELSE v

Weathers(h) == {a \in DOMAIN h : "wind" \in DOMAIN h[a]}
Identities(h) == {a \in DOMAIN h : "dateOfBirth" \in DOMAIN h[a]}
Names(h) == {a \in DOMAIN h : "lastName" \in DOMAIN h[a]}

\* the wholes a test may pass to lens t
Wholes(t, h) ==
  CASE suite \in {"table", "assoc"} -> Bit
    [] suite = "weather" ->
         IF t = "inner" THEN {h[a].cTemperature : a \in Weathers(h)}
         ELSE Weathers(h)
    [] suite = "houseOfCards" ->
         IF t = "inner" THEN Names(h) ELSE Identities(h)

\* the focuses a test may pass to lens t
Focuses(t, h) ==
  CASE suite \in {"table", "assoc"} -> Bit
    [] suite = "weather" -> IF t = "outer" THEN CInputs ELSE FInputs
    [] suite = "houseOfCards" ->
         IF t = "outer" THEN Names(h) ELSE FirstNames

Idle ==
  /\ before = heap
  /\ nalloc = 0
  /\ op = "none"
  /\ target = "none"
  /\ focus = "none"
  /\ whole = "none"
  /\ ret = "none"
  /\ inputs = <<>>
  /\ callers = <<>>

InitTable ==
  /\ suite = "table"
  /\ lenses \in {<<l2, l1>> : l2 \in TableLenses, l1 \in TableLenses}
  /\ heap = <<>>
  /\ Idle

InitWeather ==
  /\ suite = "weather"
  /\ lenses = <<celciusTemperatureLens, fahrenheitToCelciusLens>>
  /\ \E c \in CInputs, w \in WindInputs :
       heap = <<[cTemperature |-> c, wind |-> w]>>
  /\ Idle

InitHouseOfCards ==
  /\ suite = "houseOfCards"
  /\ lenses = <<nameLens, firstNameLens>>
  /\ \E fn \in FirstNames, ln \in LastNames, d \in Dates :
       heap = <<[firstName |-> fn, lastName |-> ln],
                [name |-> 1, dateOfBirth |-> d]>>
  /\ Idle

\* setters over Bit: the focus, the old whole, the focus negated, both mixed
AssocSetters ==
  {[p \in Bit \X Bit |-> p[1]], [p \in Bit \X Bit |-> p[2]],
   [p \in Bit \X Bit |-> 1 - p[1]], [p \in Bit \X Bit |-> (p[1] + p[2]) % 2]}

\* the table lenses with one of these setters and any getter
AssocLenses == {l \in TableLenses : l.set.tbl \in AssocSetters}

InitAssoc ==
  /\ suite = "assoc"
  /\ lenses \in {<<a, b, c>> : a \in AssocLenses, b \in AssocLenses,
                               c \in AssocLenses}
  /\ heap = <<>>
  /\ Idle

Init == InitTable \/ InitWeather \/ InitHouseOfCards

InitTests == InitWeather \/ InitHouseOfCards

\* a call may allocate while the test's budget lasts
Finish(r) ==
  /\ r.heap # heap => nalloc < MaxSets
  /\ nalloc' = IF r.heap # heap THEN nalloc + 1 ELSE nalloc
  /\ before' = heap
  /\ heap' = r.heap
  /\ ret' = r.val

CallGet(t, w) ==
  /\ Finish(Call(LensOf(t).get, <<w>>, heap))
  /\ op' = "get"
  /\ target' = t
  /\ focus' = "none"
  /\ whole' = w
  /\ UNCHANGED <<suite, lenses, inputs, callers>>

CallSet(t, f, w) ==
  /\ Finish(Call(LensOf(t).set, <<f, w>>, heap))
  /\ op' = "set"
  /\ target' = t
  /\ focus' = f
  /\ whole' = w
  /\ UNCHANGED <<suite, lenses, inputs, callers>>

Next ==
  \/ \E t \in Targets : \E w \in Wholes(t, heap) : CallGet(t, w)
  \/ \E t \in Targets : \E f \in Focuses(t, heap) :
       \E w \in Wholes(t, heap) : CallSet(t, f, w)

Spec == Init /\ [][Next]_vars

SpecTests == InitTests /\ [][Next]_vars

SpecTable == InitTable /\ [][Next]_vars

SpecAssoc == InitAssoc /\ [][Next]_vars

\* ------------------------------------------------------- lens construction
\* the getters and setters a caller may supply: every table over Bit
Getters == {Table(g) : g \in [{<<w>> : w \in Bit} -> Bit]}
Setters == {Table(s) : s \in [Bit \X Bit -> Bit]}

InitLens ==
  /\ suite = "table"
  /\ lenses = <<>>
  /\ heap = <<>>
  /\ Idle

\* const l = lens(get, set)
MakeLens(get, set) ==
  /\ lenses = <<>>
  /\ lenses' = <<lens(get, set)>>
  /\ inputs' = <<<<get, set>>>>
  /\ op' = "lens"
  /\ UNCHANGED <<suite, heap, before, nalloc, target, focus, whole, ret,
                 callers>>

\* construction returned a lens, which the caller goes on to use
Made == lenses # <<>> /\ DOMAIN lenses[1] = {"get", "set"}

NextLens ==
  \/ \E get \in Getters : \E set \in Setters : MakeLens(get, set)
  \/ Made /\ \E w \in Bit : CallGet("outer", w)
  \/ Made /\ \E f \in Bit : \E w \in Bit : CallSet("outer", f, w)

SpecLens == InitLens /\ [][NextLens]_vars

\* ------------------------------------------------------------ composition
outer == lenses[1]
inner == lenses[2]

\* running a lens's get / set on the heap the last call started from
GetOn(l, w, h) == Call(l.get, <<w>>, h)
SetOn(l, f, w, h) == Call(l.set, <<f, w>>, h)

\* C1: a get of compose(outer, inner) returns what the inner lens reads in
\* what the outer lens reads in the whole: inner.get(outer.get(whole)).
C1_ComposeGet ==
  (op = "get" /\ target = "composed") =>
    ret = GetOn(inner, GetOn(outer, whole, before).val, before).val

\* the composed get has run on a whole where reading only through the outer
\* lens gives another value
C1_Witness ==
  /\ op = "get" /\ target = "composed"
  /\ ret # GetOn(outer, whole, before).val
  /\ ret = GetOn(inner, GetOn(outer, whole, before).val, before).val

\* C2: a set of compose(outer, inner) returns
\* outer.set(inner.set(focus, outer.get(whole)), whole).
C2_ComposeSet ==
  (op = "set" /\ target = "composed") =>
    LET r2 == GetOn(outer, whole, before)
        r1 == SetOn(inner, focus, r2.val, r2.heap)
        r  == SetOn(outer, r1.val, whole, r1.heap)
    IN  Value(WholeType(target), ret, heap) =
          Value(WholeType(target), r.val, r.heap)

\* the composed set has returned a whole that differs from its argument, on
\* the nested record of the House of Cards test
C2_Witness ==
  /\ op = "set" /\ target = "composed" /\ suite = "houseOfCards"
  /\ DeepValue(ret, heap) # DeepValue(whole, before)
  /\ DeepValue(ret, heap).name.firstName = focus

\* ------------------------------------------------- callers side by side
\* Several callers invoke one lens of a test on one heap.  An invocation of
\* a plain lens is one call of its get or set; an invocation of a composed
\* lens makes the calls of the body of compose one after the other, and the
\* calls of the other callers come in between.
\* the objects are those the tests build
InitConcurrent ==
  \/ /\ suite = "weather"
     /\ lenses = <<celciusTemperatureLens, fahrenheitToCelciusLens>>
     /\ heap = <<[cTemperature |-> 0, wind |-> 0]>>
     /\ Idle
  \/ /\ suite = "houseOfCards"
     /\ lenses = <<nameLens, firstNameLens>>
     /\ heap = <<[firstName |-> "Francis", lastName |-> "Underwood"],
                 [name |-> 1, dateOfBirth |-> "1959-11-05"]>>
     /\ Idle

\* the calls an invocation makes
LeafCalls(t, o) ==
  IF t = "composed" THEN (IF o = "get" THEN 2 ELSE 3) ELSE 1

Running(r) == r.pc < LeafCalls(target, r.op)

\* what an invocation returned
Returned(r) == r.temps[Len(r.temps)]

\* the objects a caller can hold: those of the test, those returned to a
\* caller, and the names of these
Known ==
  LET held == DOMAIN before \cup
                {Returned(callers[c]) : c \in {d \in DOMAIN callers :
                    ~Running(callers[d]) /\ callers[d].op = "set"
                                         /\ WholeType(target) = "obj"}}
  IN  held \cup {heap[a].name : a \in {b \in held : "name" \in DOMAIN heap[b]}}

ArgWholes(t) ==
  IF suite = "weather" /\ t = "inner"
  THEN {heap[a].cTemperature : a \in Weathers(heap) \cap Known}
  ELSE Wholes(t, heap) \cap Known

\* the temperatures and first names the tests set
ArgFocuses(t) ==
  CASE suite = "weather" -> IF t = "outer" THEN {10, 18} ELSE {32, 50}
    [] suite = "houseOfCards" ->
         IF t = "outer" THEN Names(heap) \cap Known ELSE FirstNames

\* the invocations made so far
Invocations ==
  LET made[c \in 0..Len(callers)] ==
        IF c = 0 THEN 0 ELSE made[c - 1] + callers[c].n
  IN  made[Len(callers)]

\* caller c invokes o of lens t on (f, w): nothing has run yet
Invoke(c, o, t, f, w) ==
  /\ target \in {"none", t}
  /\ c <= Len(callers) + 1
  /\ c <= Len(callers) => ~Running(callers[c])
  /\ Invocations < MaxInvocations
  /\ target' = t
  /\ LET r == [op |-> o, focus |-> f, whole |-> w, pc |-> 0, temps |-> <<>>,
               start |-> heap,
               n |-> IF c <= Len(callers) THEN callers[c].n + 1 ELSE 1]
     IN  callers' = IF c <= Len(callers) THEN [callers EXCEPT ![c] = r]
                    ELSE Append(callers, r)
  /\ UNCHANGED <<suite, lenses, heap, before, nalloc, op, focus, whole, ret,
                 inputs>>

\* the next call of the invocation r of lens t, on heap h:
\* get: object => lens1.get(lens2.get(object))
\* set: (value, object) => lens2.set(lens1.set(value, lens2.get(object)), object)
NextCall(t, r, h) ==
  CASE t # "composed" /\ r.op = "get" -> Call(LensOf(t).get, <<r.whole>>, h)
    [] t # "composed" /\ r.op = "set" ->
         Call(LensOf(t).set, <<r.focus, r.whole>>, h)
    [] t = "composed" /\ r.pc = 0 -> Call(lenses[1].get, <<r.whole>>, h)
    [] t = "composed" /\ r.pc = 1 /\ r.op = "get" ->
         Call(lenses[2].get, <<r.temps[1]>>, h)
    [] t = "composed" /\ r.pc = 1 /\ r.op = "set" ->
         Call(lenses[2].set, <<r.focus, r.temps[1]>>, h)
    [] t = "composed" /\ r.pc = 2 ->
         Call(lenses[1].set, <<r.temps[2], r.whole>>, h)

\* caller c makes the next call of its invocation
Step(c) ==
  /\ Running(callers[c])
  /\ LET res == NextCall(target, callers[c], heap)
     IN  /\ heap' = res.heap
         /\ callers' = [callers EXCEPT ![c].temps = Append(@, res.val),
                                       ![c].pc = @ + 1]
  /\ UNCHANGED <<suite, lenses, before, nalloc, op, target, focus, whole, ret,
                 inputs>>

NextConcurrent ==
  \/ \E c \in 1..NCallers : \E t \in Targets : \E w \in ArgWholes(t) :
       Invoke(c, "get", t, "none", w)
  \/ \E c \in 1..NCallers : \E t \in Targets : \E f \in ArgFocuses(t) :
       \E w \in ArgWholes(t) : Invoke(c, "set", t, f, w)
  \/ \E c \in DOMAIN callers : Step(c)

SpecConcurrent == InitConcurrent /\ [][NextConcurrent]_vars

\* ------------------------------------------------- invoices, with objects
\* (src/unnamed/part_002; src/src/paradigms/oop.ts is the same code with
\* InvoiceLine named Item and computePrice named computeTotalPrice)
ReferenceIds ==
  {"5f8e5092-22fe-4e4f-897f-2948e3b4d507",
   "b2cb27dc-339f-4eeb-aa94-31b4ddaa8e92"}
Prices == {30, 50}
Quantities == 1..MaxQuantity

\* new Reference(id, price): its two fields are private and never assigned
\* again, so a Reference is the record of them
References == [id : ReferenceIds, price : Prices]

Reference_getPrice(this) == this.price

\* new InvoiceLine(reference, quantity)
InvoiceLine(reference, quantity) ==
  [reference |-> reference, quantity |-> quantity]

\* the quantity forgotten: return this.reference.getPrice()
InvoiceLine_computePrice_noQuantity(this) == Reference_getPrice(this.reference)

InvoiceLine_computePrice(this) ==
  Reference_getPrice(this.reference) * this.quantity

\* the line assigned, not pushed: this.lines = [new InvoiceLine(...)]
Invoice_addReference_assign(this, reference, quantity, h) ==
  [h EXCEPT ![this].lines = <<InvoiceLine(reference, quantity)>>]

\* this.lines.push(new InvoiceLine(reference, quantity)), on the heap
Invoice_addReference(this, reference, quantity, h) ==
  [h EXCEPT ![this].lines = Append(@, InvoiceLine(reference, quantity))]

\* let totalPrice = 0; this.lines.forEach(line => { totalPrice += ... })
Invoice_computePrice(this, h) ==
  LET lines == h[this].lines
      totalPrice[i \in 0..Len(lines)] ==
        IF i = 0 THEN 0
        ELSE totalPrice[i - 1] + InvoiceLine_computePrice(lines[i])
  IN  totalPrice[Len(lines)]

\* const invoice = new Invoice(), at address 1
InitOop ==
  /\ suite = "oop"
  /\ lenses = <<>>
  /\ heap = <<[lines |-> <<>>]>>
  /\ Idle

AddReference(reference, quantity) ==
  /\ Len(heap[1].lines) < MaxLines
  /\ before' = heap
  /\ heap' = Invoice_addReference(1, reference, quantity, heap)
  /\ inputs' = Append(inputs, <<reference, quantity>>)
  /\ op' = "addReference"
  /\ ret' = "none"
  /\ UNCHANGED <<suite, lenses, nalloc, target, focus, whole, callers>>

ComputePrice ==
  /\ before' = heap
  /\ ret' = Invoice_computePrice(1, heap)
  /\ op' = "computePrice"
  /\ UNCHANGED <<suite, lenses, heap, nalloc, target, focus, whole, inputs,
                 callers>>

NextOop ==
  \/ \E reference \in References : \E quantity \in Quantities :
       AddReference(reference, quantity)
  \/ ComputePrice

SpecOop == InitOop /\ [][NextOop]_vars

\* ------------------------------------------------ invoices, with functions
\* array.map(fn) is the array of fn(array[i]); array.reduce(fn, initialValue)
\* folds from the left: accumulator = fn(accumulator, array[i]) for i = 1, 2...
\* the arrays of at most MaxLines lines
LineArrays ==
  UNION {[1..n -> [reference : References, quantity : Quantities]] :
           n \in 0..MaxLines}

\* src/unnamed/part_001
\* the quantity added, not multiplied: return price + quantity
computeInvoiceLinePrice_plus(line) == line.reference.price + line.quantity

computeInvoiceLinePrice(line) == line.reference.price * line.quantity

sum(a, b) == a + b

computeInvoicePrice(invoice) ==
  LET lines == invoice.lines
      mapped == [i \in 1..Len(lines) |-> computeInvoiceLinePrice(lines[i])]
      accumulator[i \in 0..Len(mapped)] ==
        IF i = 0 THEN 0 ELSE sum(accumulator[i - 1], mapped[i])
  IN  accumulator[Len(mapped)]

\* src/src/paradigms/functional.ts
computeItemPrice(item) == item.reference.price * item.quantity

computeTotalPrice(invoice) ==
  LET items == invoice.items
      mapped == [i \in 1..Len(items) |-> computeItemPrice(items[i])]
      accumulator[i \in 0..Len(mapped)] ==
        IF i = 0 THEN 0 ELSE sum(accumulator[i - 1], mapped[i])
  IN  accumulator[Len(mapped)]

InitFunctional ==
  /\ suite = "functional"
  /\ lenses = <<>>
  /\ heap = <<>>
  /\ Idle

\* a call of one function on one argument, outside the lens tests
CallFunction(name, argument, result) ==
  /\ inputs' = <<argument>>
  /\ op' = name
  /\ ret' = result
  /\ UNCHANGED <<suite, lenses, heap, before, nalloc, target, focus, whole,
                 callers>>

ComputeInvoicePrice(invoice) ==
  CallFunction("computeInvoicePrice", invoice, computeInvoicePrice(invoice))

ComputeTotalPrice(invoice) ==
  CallFunction("computeTotalPrice", invoice, computeTotalPrice(invoice))

NextFunctional ==
  \/ \E lines \in LineArrays : ComputeInvoicePrice([lines |-> lines])
  \/ \E items \in LineArrays : ComputeTotalPrice([items |-> items])

SpecFunctional == InitFunctional /\ [][NextFunctional]_vars

\* --------------------------------------------------------------- fizzbuzz
\* a % b of JavaScript for b > 0: the remainder has the sign of a
JsRemainder(a, b) == IF a >= 0 THEN a % b ELSE -((-a) % b)

\* the function returned by appendIfMultipleOf, with what it captures
appendIfMultipleOf(multiple, stringToAppend, n) ==
  [code |-> "appendIfMultipleOf", multiple |-> multiple,
   stringToAppend |-> stringToAppend, n |-> n]

\* the body of that function, applied to currentString
appendIfMultipleOf_call(f, currentString) ==
  IF JsRemainder(f.n, f.multiple) = 0
  THEN currentString \o f.stringToAppend
  ELSE currentString

\* the two appends in the other order
fizzbuzz_buzzFirst(n) ==
  LET appendFizzIfMultipleOf3 == appendIfMultipleOf(3, "Fizz", n)
      appendBuzzIfMultipleOf5 == appendIfMultipleOf(5, "Buzz", n)
  IN  appendIfMultipleOf_call(appendFizzIfMultipleOf3,
        appendIfMultipleOf_call(appendBuzzIfMultipleOf5, ""))

fizzbuzz(n) ==
  LET appendFizzIfMultipleOf3 == appendIfMultipleOf(3, "Fizz", n)
      appendBuzzIfMultipleOf5 == appendIfMultipleOf(5, "Buzz", n)
  IN  appendIfMultipleOf_call(appendBuzzIfMultipleOf5,
        appendIfMultipleOf_call(appendFizzIfMultipleOf3, ""))

\* the version with Ramda (src/unnamed/part_000); its names carry R_ where
\* the two files use the same name
R_appendIfMultipleOf(multipleOf, stringToAppend, n, currentString) ==
  IF JsRemainder(n, multipleOf) = 0
  THEN currentString \o stringToAppend
  ELSE currentString

\* R.curry(appendIfMultipleOf): a function value that holds the arguments
\* received so far
R_curry == [code |-> "curried", received |-> <<>>]

\* f(x) for a curried function of four parameters: the fourth argument
\* runs the function, an earlier one is kept
R_curry_call(f, x) ==
  LET received == Append(f.received, x)
  IN  IF Len(received) < 4 THEN [f EXCEPT !.received = received]
      ELSE R_appendIfMultipleOf(received[1], received[2], received[3],
                                received[4])

\* the functions applied from the last to the first, as R.compose does
R_pipe_fromRight(fns, x) ==
  LET a[i \in 0..Len(fns)] ==
        IF i = 0 THEN x ELSE R_curry_call(fns[Len(fns) + 1 - i], a[i - 1])
  IN  a[Len(fns)]

\* R.pipe(...fns)(x): the functions applied from the first to the last
R_pipe(fns, x) ==
  LET a[i \in 0..Len(fns)] ==
        IF i = 0 THEN x ELSE R_curry_call(fns[i], a[i - 1])
  IN  a[Len(fns)]

R_fizzbuzz(n) ==
  LET append == R_curry
      append3FizzN == R_curry_call(R_curry_call(R_curry_call(append, 3),
                                                "Fizz"), n)
      append5BuzzN == R_curry_call(R_curry_call(R_curry_call(append, 5),
                                                "Buzz"), n)
  IN  R_pipe(<<append3FizzN, append5BuzzN>>, "")

InitFizzbuzz ==
  /\ suite = "fizzbuzz"
  /\ lenses = <<>>
  /\ heap = <<>>
  /\ Idle

Fizzbuzz(n) == CallFunction("fizzbuzz", n, fizzbuzz(n))

FizzbuzzRamda(n) == CallFunction("R.fizzbuzz", n, R_fizzbuzz(n))

NextFizzbuzz ==
  \/ \E n \in -MaxN..MaxN : Fizzbuzz(n)
  \/ \E n \in -MaxN..MaxN : FizzbuzzRamda(n)

SpecFizzbuzz == InitFizzbuzz /\ [][NextFizzbuzz]_vars

\* ------------------------------------------------------------ transducers
increment(i) == i + 1

isEven(i) == JsRemainder(i, 2) = 0

\* sum of the first test: (i, j) => i + j
sum_ij(i, j) == i + j

\* values.map(increment).filter(isEven).reduce(sum, 0)
withoutTransducer(values) ==
  LET mapped == [i \in 1..Len(values) |-> increment(values[i])]
      kept(i) == isEven(i)
      filtered == SelectSeq(mapped, kept)
      accumulator[i \in 0..Len(filtered)] ==
        IF i = 0 THEN 0 ELSE sum_ij(accumulator[i - 1], filtered[i])
  IN  accumulator[Len(filtered)]

\* the functions of the second test are values: a record of the code and of
\* what it captures
map(fn) == [code |-> "map", fn |-> fn]

filter(fn) == [code |-> "filter", fn |-> fn]

\* f(x) for the functions of one argument
CallOne(f, x) ==
  CASE f.code = "increment" -> increment(x)
    [] f.code = "isEven" -> isEven(x)
    [] f.code = "map" -> [code |-> "map.reducer", fn |-> f.fn, reducer |-> x]
    [] f.code = "filter" ->
         [code |-> "filter.reducer", fn |-> f.fn, reducer |-> x]

\* fns.reduce in place of fns.reduceRight: the first transducer is applied
\* first
pipe_reduce(fns, x) ==
  LET a[i \in 0..Len(fns)] ==
        IF i = 0 THEN x ELSE CallOne(fns[i], a[i - 1])
  IN  a[Len(fns)]

\* pipe(...fns)(x): fns.reduceRight((a, fn) => fn(a), x)
pipe(fns, x) ==
  LET a[i \in 0..Len(fns)] ==
        IF i = 0 THEN x ELSE CallOne(fns[Len(fns) + 1 - i], a[i - 1])
  IN  a[Len(fns)]

\* f(a, c) for the reducers
RECURSIVE CallReducer(_, _, _)
CallReducer(f, a, c) ==
  CASE f.code = "sum" -> a + c
    [] f.code = "map.reducer" -> CallReducer(f.reducer, a, CallOne(f.fn, c))
    [] f.code = "filter.reducer" ->
         IF CallOne(f.fn, c) THEN CallReducer(f.reducer, a, c) ELSE a

\* values.reduce(pipe(map(increment), filter(isEven))(sum), 0)
withTransducer(values) ==
  LET transducer(x) ==
        pipe(<<map(Fn("increment")), filter(Fn("isEven"))>>, x)
      reducer == transducer(Fn("sum"))
      accumulator[i \in 0..Len(values)] ==
        IF i = 0 THEN 0 ELSE CallReducer(reducer, accumulator[i - 1], values[i])
  IN  accumulator[Len(values)]

\* the lists of at most MaxLen small values, and the list of the tests
ValueLists ==
  UNION {[1..n -> -MaxValue..MaxValue] : n \in 0..MaxLen}
    \cup {<<0, 1, 2, 3, 4, 5, 6, 7, 8, 9>>}

InitTransducers ==
  /\ suite = "transducers"
  /\ lenses = <<>>
  /\ heap = <<>>
  /\ Idle

WithoutTransducer(values) ==
  CallFunction("withoutTransducer", values, withoutTransducer(values))

WithTransducer(values) ==
  CallFunction("withTransducer", values, withTransducer(values))

NextTransducers ==
  \/ \E values \in ValueLists : WithoutTransducer(values)
  \/ \E values \in ValueLists : WithTransducer(values)

SpecTransducers == InitTransducers /\ [][NextTransducers]_vars

\* ---------------------------------------------------------------- counters
\* (src/README.md, "Closures").  A Counter object is a heap object of class
\* Counter; the variable count of a call of makeCounter lives in the scope
\* of that call, a heap object too, and the function returned holds the
\* address of its scope.

\* new Counter(): constructor() { this.count = 0 }
Counter_new(h) == New([class |-> "Counter", count |-> 0], h)

\* increment() { return ++this.count }
Counter_increment(this, h) ==
  LET count == h[this].count + 1
  IN  Return(count, [h EXCEPT ![this].count = count])

\* count declared outside makeCounter: the calls of makeCounter set the one
\* count to 0 and all the functions returned hold it
makeCounter_oneCount(h) ==
  LET scopes == {a \in DOMAIN h : "class" \notin DOMAIN h[a]}
      scope == IF scopes = {} THEN Len(h) + 1 ELSE CHOOSE a \in scopes : TRUE
  IN  Return([code |-> "makeCounter.function", scope |-> scope],
             IF scopes = {} THEN Append(h, [count |-> 0])
             ELSE [h EXCEPT ![scope].count = 0])

\* let count = 0; return function() {...}
makeCounter(h) ==
  LET scope == Len(h) + 1
  IN  Return([code |-> "makeCounter.function", scope |-> scope],
             Append(h, [count |-> 0]))

\* the function returned by makeCounter: return ++count
makeCounter_function(f, h) ==
  LET count == h[f.scope].count + 1
  IN  Return(count, [h EXCEPT ![f.scope].count = count])

InitCounter ==
  /\ suite = "counter"
  /\ lenses = <<>>
  /\ heap = <<>>
  /\ Idle

\* the run holds the counters it made, each with the calls made on it
Made_counter(r, o) ==
  /\ Len(inputs) < MaxCounters
  /\ before' = heap
  /\ heap' = r.heap
  /\ ret' = r.val
  /\ inputs' = Append(inputs, [made |-> o, counter |-> r.val, calls |-> 0])
  /\ op' = o
  /\ target' = Len(inputs) + 1
  /\ UNCHANGED <<suite, lenses, nalloc, focus, whole, callers>>

\* const counter = new Counter()
NewCounter == Made_counter(Counter_new(heap), "new Counter")

\* const counter = makeCounter()
MakeCounter == Made_counter(makeCounter(heap), "makeCounter")

Called_counter(i, r, o) ==
  /\ inputs[i].calls < MaxCalls
  /\ before' = heap
  /\ heap' = r.heap
  /\ ret' = r.val
  /\ inputs' = [inputs EXCEPT ![i].calls = @ + 1]
  /\ op' = o
  /\ target' = i
  /\ UNCHANGED <<suite, lenses, nalloc, focus, whole, callers>>

\* the i-th counter of the run is a Counter object
IsObject(i) == inputs[i].made = "new Counter"

\* counter.increment()
Increment(i) ==
  /\ IsObject(i)
  /\ Called_counter(i, Counter_increment(inputs[i].counter, heap),
                    "increment")

\* counter()
CallCounter(i) ==
  /\ ~IsObject(i)
  /\ Called_counter(i, makeCounter_function(inputs[i].counter, heap),
                    "counter")

NextCounter ==
  \/ NewCounter
  \/ MakeCounter
  \/ \E i \in DOMAIN inputs : Increment(i)
  \/ \E i \in DOMAIN inputs : CallCounter(i)

SpecCounter == InitCounter /\ [][NextCounter]_vars

\* --------------------------------------------------------------- the laws
\* the three lens laws of lens t, over the wholes and focuses a test can
\* pass to it on heap h

\* lens.set(lens.get(whole), whole) equals whole
GetSet(t, h) ==
  \A w \in Wholes(t, h) :
    LET g == GetOn(LensOf(t), w, h)
        s == SetOn(LensOf(t), g.val, w, g.heap)
    IN  Value(WholeType(t), s.val, s.heap) = Value(WholeType(t), w, h)

\* lens.get(lens.set(focus, whole)) equals focus
SetGet(t, h) ==
  \A f \in Focuses(t, h) : \A w \in Wholes(t, h) :
    LET s == SetOn(LensOf(t), f, w, h)
        g == GetOn(LensOf(t), s.val, s.heap)
    IN  Value(FocusType(t), g.val, g.heap) = Value(FocusType(t), f, h)

\* lens.set(focus2, lens.set(focus1, whole)) equals lens.set(focus2, whole)
SetSet(t, h) ==
  \A f1 \in Focuses(t, h) : \A f2 \in Focuses(t, h) :
    \A w \in Wholes(t, h) :
      LET s1  == SetOn(LensOf(t), f1, w, h)
          s12 == SetOn(LensOf(t), f2, s1.val, s1.heap)
          s2  == SetOn(LensOf(t), f2, w, h)
      IN  Value(WholeType(t), s12.val, s12.heap) =
            Value(WholeType(t), s2.val, s2.heap)

Lawful(t, h) == GetSet(t, h) /\ SetGet(t, h) /\ SetSet(t, h)

\* the first name of identity a
FirstNameOf(a, h) == h[h[a].name].firstName

\* C4: composition preserves GetSet: when outer and inner each satisfy the
\* three laws, compose(outer, inner).set(compose(outer, inner).get(whole),
\* whole) is equal by value to whole, for every whole.
C4_ComposePreservesGetSet ==
  (Lawful("outer", heap) /\ Lawful("inner", heap)) => GetSet("composed", heap)

\* the composed lens of two lawful lenses has written back into an identity
\* the first name it holds, and returned an equal identity
C4_Witness ==
  /\ suite = "houseOfCards" /\ op = "set" /\ target = "composed"
  /\ Lawful("outer", before) /\ Lawful("inner", before)
  /\ focus = FirstNameOf(whole, before)
  /\ ret # whole
  /\ DeepValue(ret, heap) = DeepValue(whole, before)

\* C5: composition preserves SetGet: when outer and inner each satisfy the
\* three laws, compose(outer, inner).get(compose(outer, inner).set(focus,
\* whole)) equals focus, for every focus and whole.
C5_ComposePreservesSetGet ==
  (Lawful("outer", heap) /\ Lawful("inner", heap)) => SetGet("composed", heap)

\* the composed lens of two lawful lenses has read, in an identity that a
\* set returned, a first name that the first identity does not hold
C5_Witness ==
  /\ suite = "houseOfCards" /\ op = "get" /\ target = "composed"
  /\ Lawful("outer", heap) /\ Lawful("inner", heap)
  /\ whole > 2
  /\ ret # FirstNameOf(2, heap)

\* C6: composition preserves SetSet: when outer and inner each satisfy the
\* three laws, c.set(focus2, c.set(focus1, whole)) equals c.set(focus2,
\* whole) for c = compose(outer, inner) and every focus1, focus2 and whole.
C6_ComposePreservesSetSet ==
  (Lawful("outer", heap) /\ Lawful("inner", heap)) => SetSet("composed", heap)

\* the composed lens of two lawful lenses has set a first name in an
\* identity whose first name an earlier set had changed, and returned what
\* setting it in the first identity returns
C6_Witness ==
  /\ suite = "houseOfCards" /\ op = "set" /\ target = "composed"
  /\ Lawful("outer", before) /\ Lawful("inner", before)
  /\ whole > 2
  /\ FirstNameOf(whole, before) # FirstNameOf(2, before)
  /\ focus # FirstNameOf(whole, before)
  /\ DeepValue(ret, heap) =
       LET s == SetOn(LensOf("composed"), focus, 2, before)
       IN  DeepValue(s.val, s.heap)

\* C7: each field lens of the tests (cTemperature on StandardWeather, name
\* on Identity, firstName on Name) satisfies GetSet, SetGet and SetSet for
\* every whole and every focus.
C7_FieldLensesLawful ==
  /\ suite = "weather" => Lawful("outer", heap)
  /\ suite = "houseOfCards" => Lawful("outer", heap) /\ Lawful("inner", heap)

\* the cTemperature lens has set another temperature in a windy weather:
\* the weather returned holds the new temperature and the wind
C7_Witness ==
  /\ suite = "weather" /\ op = "set" /\ target = "outer"
  /\ before[whole].wind = 1
  /\ focus # before[whole].cTemperature
  /\ heap[ret] = [cTemperature |-> focus, wind |-> 1]

\* C8: no mutation: a call leaves every object that existed when it started
\* as it was, the whole and the focus passed to it included, and a set on
\* an object returns a new object.
C8_NoMutation ==
  /\ \A a \in DOMAIN before : a \in DOMAIN heap /\ heap[a] = before[a]
  /\ (op = "set" /\ WholeType(target) = "obj") => ret \notin DOMAIN before

\* the second set of a test, on the composed Fahrenheit lens, has returned a
\* weather with another temperature and left its argument as it was
C8_Witness ==
  /\ suite = "weather" /\ op = "set" /\ target = "composed"
  /\ nalloc = 2
  /\ heap[ret].cTemperature # before[whole].cTemperature
  /\ heap[whole] = before[whole]

\* C9: for compose(nameLens, firstNameLens), set(newFirstName, identity)
\* returns an identity with name.firstName = newFirstName and with the
\* name.lastName and the dateOfBirth of identity; get(identity) returns
\* identity.name.firstName.
C9_HouseOfCards ==
  (suite = "houseOfCards" /\ target = "composed") =>
    /\ op = "get" => ret = FirstNameOf(whole, before)
    /\ op = "set" =>
         DeepValue(ret, heap) =
           [name |-> [firstName |-> focus,
                      lastName |-> before[before[whole].name].lastName],
            dateOfBirth |-> before[whole].dateOfBirth]

\* the scenario of the test: "Frank" set in Francis Underwood
C9_Witness ==
  /\ suite = "houseOfCards" /\ op = "set" /\ target = "composed"
  /\ focus = "Frank"
  /\ DeepValue(whole, before) =
       [name |-> [firstName |-> "Francis", lastName |-> "Underwood"],
        dateOfBirth |-> "1959-11-05"]
  /\ DeepValue(ret, heap) =
       [name |-> [firstName |-> "Frank", lastName |-> "Underwood"],
        dateOfBirth |-> "1959-11-05"]

\* r is the integer nearest to n / d (d > 0)
Nearest(r, n, d) == 2 * (IF n >= r * d THEN n - r * d ELSE r * d - n) <= d

\* C10: for the Fahrenheit lens compose(celciusTemperatureLens,
\* fahrenheitToCelciusLens) and a weather of temperature c, get returns
\* round(c * 9 / 5 + 32) and set(f, weather) returns the weather with
\* cTemperature = round((f - 32) * 5 / 9) and the same wind; get of
\* {cTemperature: 0, wind: 0} is 32 and set of 50 in it is
\* {cTemperature: 10, wind: 0}.
C10_FahrenheitLens ==
  (suite = "weather" /\ target = "composed") =>
    /\ op = "get" =>
         /\ Nearest(ret, before[whole].cTemperature * 9 + 32 * 5, 5)
         /\ before[whole] = [cTemperature |-> 0, wind |-> 0] => ret = 32
    /\ op = "set" =>
         /\ DOMAIN heap[ret] = {"cTemperature", "wind"}
         /\ Nearest(heap[ret].cTemperature, (focus - 32) * 5, 9)
         /\ heap[ret].wind = before[whole].wind
         /\ (focus = 50 /\ before[whole] = [cTemperature |-> 0, wind |-> 0])
              => heap[ret] = [cTemperature |-> 10, wind |-> 0]

\* the scenario of the test: 50 degrees Fahrenheit set in a weather of 0
\* degrees Celsius
C10_Witness ==
  /\ suite = "weather" /\ op = "set" /\ target = "composed"
  /\ focus = 50
  /\ before[whole] = [cTemperature |-> 0, wind |-> 0]
  /\ heap[ret] = [cTemperature |-> 10, wind |-> 0]

\* the distance between two integers
Distance(a, b) == IF a >= b THEN a - b ELSE b - a

\* what the composed lens reads in the whole that the last call returned
ReadBack == GetOn(LensOf("composed"), ret, heap).val

\* the temperatures the two conversions alone are applied to
Degrees == -MaxDegrees..MaxDegrees

\* C11: SetGet holds within a tolerance of 1 for the Fahrenheit lens: what it
\* reads in the weather that set(f, weather) returned is at most 1 away from
\* f, as is every Fahrenheit temperature converted to Celsius and back.
C11_SetGetWithinOne ==
  /\ (suite = "weather" /\ op = "set" /\ target = "composed") =>
       Distance(ReadBack, focus) <= 1
  /\ \A f \in Degrees :
       Distance(celciusToFahrenheit(fahrenheitToCelcius(f)), f) <= 1

\* 31 degrees Fahrenheit have been set and 30 are read back
C11_Witness ==
  /\ suite = "weather" /\ op = "set" /\ target = "composed"
  /\ focus = 31
  /\ ReadBack = 30

\* C19: strict SetGet is broken by rounding: there is a Fahrenheit value, 33,
\* for which the get of the weather that set(33, weather) returned is not 33
\* (33 is stored as 1 degree Celsius, which reads as 34).
C19_StrictSetGetBroken ==
  (suite = "weather" /\ op = "set" /\ target = "composed" /\ focus = 33) =>
    /\ heap[ret].cTemperature = 1
    /\ ReadBack = 34
    /\ ReadBack # focus

\* 33 degrees Fahrenheit have been set in a weather and are not read back
C19_Witness ==
  /\ suite = "weather" /\ op = "set" /\ target = "composed"
  /\ focus = 33
  /\ ReadBack # 33

\* C20: GetSet holds exactly for the rounding lens: a temperature converted
\* to Fahrenheit and back is the same temperature, so setting in a weather
\* the Fahrenheit value read in it returns an equal weather.
C20_GetSetExact ==
  /\ \A c \in Degrees : fahrenheitToCelcius(celciusToFahrenheit(c)) = c
  /\ suite = "weather" => GetSet("inner", heap) /\ GetSet("composed", heap)
  /\ (suite = "weather" /\ op = "get" /\ target = "composed") =>
       LET s == SetOn(LensOf("composed"), ret, whole, heap)
       IN  s.heap[s.val] = heap[whole]

\* the Fahrenheit value of a weather of 10 degrees Celsius, which a set had
\* returned, has been read: setting it back returns an equal weather
C20_Witness ==
  /\ suite = "weather" /\ op = "get" /\ target = "composed"
  /\ whole > 1
  /\ heap[whole].cTemperature = 10
  /\ ret = 50
  /\ LET s == SetOn(LensOf("composed"), ret, whole, heap)
     IN  s.val # whole /\ s.heap[s.val] = heap[whole]

\* C12: lens(get, set) returns, for every pair and without validating the
\* laws, a lens whose get and set are the supplied functions: a call of the
\* lens returns what the supplied function returns.
C12_LensHoldsSuppliedFunctions ==
  /\ op = "lens" =>
       /\ DOMAIN lenses[1] = {"get", "set"}
       /\ lenses[1].get = inputs[1][1]
       /\ lenses[1].set = inputs[1][2]
  /\ op = "get" => ret = Call(inputs[1][1], <<whole>>, before).val
  /\ op = "set" => ret = Call(inputs[1][2], <<focus, whole>>, before).val

\* a lens has been made of a pair that breaks SetGet, and its set has
\* returned a whole in which its get does not read the focus
C12_Witness ==
  /\ op = "set"
  /\ ~Lawful("outer", heap)
  /\ ret = Call(inputs[1][2], <<focus, whole>>, before).val
  /\ GetOn(lenses[1], ret, heap).val # focus

\* the sum of price * quantity over an array of <<price, quantity>>
RECURSIVE TotalOf(_)
TotalOf(pairs) ==
  IF pairs = <<>> THEN 0
  ELSE pairs[1][1] * pairs[1][2] + TotalOf(Tail(pairs))

\* the <<price, quantity>> of the lines of an array
PairsOfLines(lines) ==
  [i \in 1..Len(lines) |-> <<lines[i].reference.price, lines[i].quantity>>]

\* the <<price, quantity>> of the addReference calls made so far
PairsAdded == [i \in 1..Len(inputs) |-> <<inputs[i][1].price, inputs[i][2]>>]

\* C14: after any sequence of addReference calls on a new Invoice,
\* computePrice returns the sum of price * quantity over the lines added, 0
\* when none was added.
C14_OopPriceIsSumOfAdded ==
  (suite = "oop" /\ op = "computePrice") =>
    /\ ret = TotalOf(PairsAdded)
    /\ inputs = <<>> => ret = 0

\* the example of the README: two units at 50 and one at 30 make 130
C14_Witness ==
  /\ suite = "oop" /\ op = "computePrice"
  /\ inputs = <<<<[id |-> "5f8e5092-22fe-4e4f-897f-2948e3b4d507", price |-> 50], 2>>,
                <<[id |-> "b2cb27dc-339f-4eeb-aa94-31b4ddaa8e92", price |-> 30], 1>>>>
  /\ ret = 130

\* C15: computeInvoicePrice (computeTotalPrice in the older file) returns the
\* sum of reference.price * quantity over the lines of the invoice, 0 for no
\* line; lines of the same reference id are each counted.
C15_FunctionalPriceIsSum ==
  /\ op = "computeInvoicePrice" =>
       /\ ret = TotalOf(PairsOfLines(inputs[1].lines))
       /\ inputs[1].lines = <<>> => ret = 0
  /\ op = "computeTotalPrice" =>
       /\ ret = TotalOf(PairsOfLines(inputs[1].items))
       /\ inputs[1].items = <<>> => ret = 0

\* the last test: two lines of the same reference id, 2 at 50 and 1 at 30
C15_Witness ==
  /\ op = "computeInvoicePrice"
  /\ inputs[1].lines =
       <<[reference |-> [id |-> "5f8e5092-22fe-4e4f-897f-2948e3b4d507", price |-> 50], quantity |-> 2],
         [reference |-> [id |-> "5f8e5092-22fe-4e4f-897f-2948e3b4d507", price |-> 30], quantity |-> 1]>>
  /\ ret = 130

\* the invoice record that holds the lines added so far
RecordOfAdded ==
  [lines |-> [i \in 1..Len(inputs) |->
                [reference |-> inputs[i][1], quantity |-> inputs[i][2]]]]

\* C18: the two invoice programs agree: an Invoice built by addReference
\* calls returns from computePrice what computeInvoicePrice returns for the
\* record of the same lines.
C18_OopEqualsFunctional ==
  (suite = "oop" /\ op = "computePrice") =>
    ret = computeInvoicePrice(RecordOfAdded)

\* both programs have priced two lines of several units each
C18_Witness ==
  /\ suite = "oop" /\ op = "computePrice"
  /\ Len(inputs) = 2
  /\ inputs[1][2] = 2 /\ inputs[2][2] = 2
  /\ inputs[1][1].price # inputs[2][1].price
  /\ ret = computeInvoicePrice(RecordOfAdded)
  /\ ret = 160

\* n is an integer multiple of m
MultipleOf(n, m) == \E k \in -(MaxN + 1)..(MaxN + 1) : n = k * m

\* C16: fizzbuzz(n) is "Fizz" for the multiples of 3 only, "Buzz" for the
\* multiples of 5 only, "FizzBuzz" for the multiples of both, and the empty
\* string for the others.
C16_Fizzbuzz ==
  op = "fizzbuzz" =>
    LET n == inputs[1] IN
    /\ (MultipleOf(n, 3) /\ ~MultipleOf(n, 5)) => ret = "Fizz"
    /\ (MultipleOf(n, 5) /\ ~MultipleOf(n, 3)) => ret = "Buzz"
    /\ (MultipleOf(n, 3) /\ MultipleOf(n, 5)) => ret = "FizzBuzz"
    /\ (~MultipleOf(n, 3) /\ ~MultipleOf(n, 5)) => ret = ""

\* a multiple of both has been given
C16_Witness == op = "fizzbuzz" /\ inputs[1] = 30 /\ ret = "FizzBuzz"

\* the sum of v + 1 over the values v of the list whose v + 1 is even
RECURSIVE SumOfEvenSuccessors(_)
SumOfEvenSuccessors(values) ==
  IF values = <<>> THEN 0
  ELSE (IF (values[1] + 1) % 2 = 0 THEN values[1] + 1 ELSE 0)
         + SumOfEvenSuccessors(Tail(values))

\* C17: reducing a list with pipe(map(increment), filter(isEven))(sum) from 0
\* gives what values.map(increment).filter(isEven).reduce(sum, 0) gives: each
\* value is incremented, then tested for evenness, then added.
C17_TransducerEqualsChain ==
  op = "withTransducer" =>
    /\ ret = withoutTransducer(inputs[1])
    /\ ret = SumOfEvenSuccessors(inputs[1])

\* the list of the tests gives 30
C17_Witness ==
  /\ op = "withTransducer"
  /\ inputs[1] = <<0, 1, 2, 3, 4, 5, 6, 7, 8, 9>>
  /\ ret = 30

\* what the invocation r of lens t returns when it runs alone on the heap
\* it started on
Alone(t, r) ==
  IF r.op = "get" THEN GetOn(LensOf(t), r.whole, r.start)
  ELSE SetOn(LensOf(t), r.focus, r.whole, r.start)

\* the type of what an invocation returns
ReturnType(t, o) == IF o = "get" THEN FocusType(t) ELSE WholeType(t)

\* C13: concurrent use is safe: in every interleaving of the get and set
\* invocations that several callers make of one plain or composed lens, an
\* invocation returns what it returns when it runs alone on its arguments,
\* and no object that existed when it started has been written since.
C13_ConcurrentUseIsSafe ==
  \A c \in DOMAIN callers :
    LET r == callers[c] IN
    /\ \A a \in DOMAIN r.start : a \in DOMAIN heap /\ heap[a] = r.start[a]
    /\ ~Running(r) =>
         Value(ReturnType(target, r.op), Returned(r), heap) =
           LET alone == Alone(target, r)
           IN  Value(ReturnType(target, r.op), alone.val, alone.heap)

\* two callers have set two temperatures in the same weather through the
\* composed lens, both having started before either had made a call; each
\* got the weather it gets alone, one of them at another address
C13_Witness ==
  /\ suite = "weather" /\ target = "composed" /\ Len(callers) = 2
  /\ \A c \in {1, 2} :
       /\ callers[c].op = "set" /\ ~Running(callers[c])
       /\ callers[c].start = before
       /\ heap[Returned(callers[c])] =
            LET alone == Alone(target, callers[c]) IN alone.heap[alone.val]
  /\ callers[1].whole = callers[2].whole
  /\ callers[1].focus # callers[2].focus
  /\ heap[Returned(callers[1])] # heap[Returned(callers[2])]
  /\ Returned(callers[2]) # Alone(target, callers[2]).val

\* C21: the set of the conversion lens ignores the prior whole: it returns
\* the same for every two prior temperatures; so the composed Fahrenheit
\* lens satisfies SetSet exactly: set(f2, set(f1, weather)) equals
\* set(f2, weather).
C21_ConversionSetIgnoresWhole ==
  /\ \A f \in Degrees : \A c1 \in CInputs \cup {10} : \A c2 \in CInputs :
       Call(fahrenheitToCelciusLens.set, <<f, c1>>, heap).val =
         Call(fahrenheitToCelciusLens.set, <<f, c2>>, heap).val
  /\ suite = "weather" => SetSet("inner", heap) /\ SetSet("composed", heap)
  /\ (suite = "weather" /\ op = "set" /\ target = "composed") =>
       \A w \in Weathers(before) :
         before[w].wind = before[whole].wind =>
           LET s == SetOn(LensOf("composed"), focus, w, before)
           IN  s.heap[s.val] = heap[ret]

\* 32 degrees Fahrenheit have been set in a weather that a set of 50 had
\* returned: the weather returned is the one that setting 32 in the first
\* weather returns
C21_Witness ==
  /\ suite = "weather" /\ op = "set" /\ target = "composed"
  /\ whole > 1
  /\ before[whole].cTemperature = 10
  /\ before[1].cTemperature # 10
  /\ focus = 32
  /\ heap[ret] = [cTemperature |-> 0, wind |-> before[1].wind]
  /\ LET s == SetOn(LensOf("composed"), 32, 1, before)
     IN  s.heap[s.val] = heap[ret]

\* C22: the two fizzbuzz implementations, with closures and with Ramda's
\* curry and pipe, return the same string for every n, and both append
\* Fizz before Buzz.
C22_FizzbuzzVersionsAgree ==
  /\ op = "fizzbuzz" => ret = R_fizzbuzz(inputs[1])
  /\ op = "R.fizzbuzz" => ret = fizzbuzz(inputs[1])
  /\ (op \in {"fizzbuzz", "R.fizzbuzz"} /\ inputs[1] % 15 = 0) =>
       ret = "FizzBuzz"

\* the version with Ramda has been called on a multiple of 3 and 5
C22_Witness ==
  /\ op = "R.fizzbuzz"
  /\ inputs[1] = 15
  /\ ret = "FizzBuzz"
  /\ ret = fizzbuzz(15)

\* the count that the i-th counter of the run holds on heap h
CountOf(i, h) ==
  LET counter == inputs[i].counter
  IN  IF IsObject(i) THEN h[counter].count ELSE h[counter.scope].count

\* C23: the k-th call of a counter (a function returned by makeCounter, or
\* a Counter object) returns k, whatever calls were made on the other
\* counters; a call on one counter leaves the count of every other counter
\* as it was.
C23_CounterCounts ==
  suite = "counter" =>
    /\ \A i \in DOMAIN inputs : CountOf(i, heap) = inputs[i].calls
    /\ op \in {"increment", "counter"} =>
         /\ ret = inputs[target].calls
         /\ \A j \in DOMAIN inputs \ {target} :
              CountOf(j, heap) = CountOf(j, before)

\* a second function returned by makeCounter has been called for the first
\* time, after two calls of the first one, and has returned 1
C23_Witness ==
  /\ suite = "counter" /\ op = "counter" /\ target = 2
  /\ ~IsObject(1)
  /\ inputs[1].calls = 2
  /\ inputs[2].calls = 1
  /\ ret = 1
  /\ CountOf(1, heap) = 2

\* the other way of nesting three lenses
OtherNesting(t) == IF t = "left" THEN "right" ELSE "left"

\* C3: compose is associative: compose(compose(A, B), C) and
\* compose(A, compose(B, C)) return the same from get on every whole and the
\* same from set on every focus and whole.
C3_ComposeAssociative ==
  /\ (op = "get" /\ target \in {"left", "right"}) =>
       ret = GetOn(LensOf(OtherNesting(target)), whole, before).val
  /\ (op = "set" /\ target \in {"left", "right"}) =>
       ret = SetOn(LensOf(OtherNesting(target)), focus, whole, before).val

\* a set through three different lenses nested to the left has changed the
\* whole
C3_Witness ==
  /\ op = "set" /\ target = "left"
  /\ Cardinality({lenses[1], lenses[2], lenses[3]}) = 3
  /\ ret # whole
  /\ ret = SetOn(LensOf("right"), focus, whole, before).val
====
